---- MODULE Spec2Model ----
(***************************************************************************)
(* Model of adv_alg_03.py: the WoysaClubParser singleton, its two batched  *)
(* fetch modes (asyncio tasks / thread pool), the per-category workers and *)
(* the article extractor.                                                  *)
(***************************************************************************)
EXTENDS Integers, Sequences, FiniteSets, TLC

VARIABLES
    instance,     \* WoysaClubParser._instance: 0 (None) or the id of the object
    initialized,  \* _instance._initialized
    data,         \* self.data: 0 before __init__, else the id of a dict on the heap
    base_url,     \* self.base_url
    heap,         \* dict objects: id -> mapping category -> article list
    nextId,       \* next fresh object id
    returned,     \* the objects the constructions returned to a caller that kept them
    view,         \* what a caller kept from its last to_dict(): the reference it
                  \* was given (0: none) and the contents it saw then
    call          \* the fetch calls: one record per caller

vars == <<instance, initialized, data, base_url, heap, nextId, returned, view, call>>

(***************************************************************************)
(* Bounds of the model and constants of the program.                       *)
(***************************************************************************)
MaxCalls == 2        \* callers that issue fetch calls
MaxLen == 5          \* longest category list of a call
MaxDistinct == 3     \* distinct categories in a list
MaxBatchSize == 2    \* largest batch_size argument
MaxObjects == 4      \* objects the heap may hold
MaxObservedLen == 3  \* longest category list of a call whose caller keeps records
MaxKept == 2         \* constructions whose result the caller keeps
MaxSplitLen == 7     \* longest list given to the partition alone
MaxBlocks == 6       \* most <article> blocks in a page given to the extractor
MaxConcLen == 2      \* longest category list of a call beside which another call
                     \* runs or a client reads the store

Limit == 5           \* find_all('article', limit=5)

None == 0
BaseUrl == "https://woysa.club"
Unset == "unset"

CallIds == 1..MaxCalls

Max(a, b) == IF a >= b THEN a ELSE b
Min(a, b) == IF a <= b THEN a ELSE b

(***************************************************************************)
(* Category lists.  A list of length n with d distinct entries repeats the *)
(* first d names cyclically: d = n gives distinct categories, d < n gives  *)
(* duplicates.                                                             *)
(***************************************************************************)
Names == <<"a", "b", "c", "d", "e", "f", "g", "h", "i", "j">>

CycleList(n, d) == [i \in 1..n |-> Names[((i - 1) % d) + 1]]

\* with them, the one-category lists of the other names
ListsUpTo(maxLen, maxDistinct) ==
    {<<>>} \cup {CycleList(n, d) : n \in 1..maxLen, d \in 1..maxDistinct}
           \cup {<<Names[d]>> : d \in 1..maxDistinct}

(***************************************************************************)
(* np.array_split(ary, n): n sections, the first len % n of size           *)
(* len // n + 1, the others of size len // n.                              *)
(***************************************************************************)
SectionSizeDropRemainder(len, n, k) == len \div n

\* sections whose remainder all goes to the last one
SectionSizeRemainderLast(len, n, k) == (len \div n) + (IF k = n THEN len % n ELSE 0)

SectionSize(len, n, k) == (len \div n) + (IF k <= len % n THEN 1 ELSE 0)

RECURSIVE DivPoint(_, _, _)
DivPoint(len, n, k) ==
    IF k = 0 THEN 0 ELSE DivPoint(len, n, k - 1) + SectionSize(len, n, k)

array_split(ary, n) ==
    [k \in 1..n |-> SubSeq(ary, DivPoint(Len(ary), n, k - 1) + 1,
                                DivPoint(Len(ary), n, k))]

\* The second argument of np.array_split in lines 39 and 60,
\* max(1, len(categories) // batch_size): the number of sections, or the
\* error its evaluation raises.
NoError == "none"

\* a batch count without the max(1, ...)
BatchCountNoMax(categories, batch_size) ==
    IF batch_size = 0
      THEN [error |-> "ZeroDivisionError", n |-> 0]
      ELSE [error |-> NoError, n |-> Len(categories) \div batch_size]

\* a batch count that takes a batch_size of 0 for 1
BatchCountClamped(categories, batch_size) ==
    [error |-> NoError, n |-> Max(1, Len(categories) \div Max(1, batch_size))]

BatchCount(categories, batch_size) ==
    IF batch_size = 0
      THEN [error |-> "ZeroDivisionError", n |-> 0]
      ELSE [error |-> NoError, n |-> Max(1, Len(categories) \div batch_size)]

\* np.array_split raises ValueError for a number of sections below 1
SplitError(count) ==
    IF count.error # NoError THEN count.error
    ELSE IF count.n < 1 THEN "ValueError" ELSE NoError

RECURSIVE Concat(_)
Concat(seqs) == IF seqs = <<>> THEN <<>> ELSE Head(seqs) \o Concat(Tail(seqs))

\* Workers of a call are numbered in dispatch order over all its batches.
Offset(batches, b) == Len(Concat(SubSeq(batches, 1, b - 1)))
WorkersOf(batches, b) == (Offset(batches, b) + 1)..(Offset(batches, b) + Len(batches[b]))
BatchOf(batches, i) == CHOOSE b \in 1..Len(batches) : i \in WorkersOf(batches, b)

(***************************************************************************)
(* Pages and the extractor.  A text is a sequence of tokens, " " and "\n"  *)
(* being whitespace.  An <article> block lists the texts of its nested     *)
(* <h2> and <p> elements in document order; a page (soup) is the sequence  *)
(* of its <article> blocks in document order.                              *)
(***************************************************************************)
Whitespace == {" ", "\n"}

RECURSIVE lstrip(_)
lstrip(t) == IF t # <<>> /\ Head(t) \in Whitespace THEN lstrip(Tail(t)) ELSE t

RECURSIVE rstrip(_)
rstrip(t) ==
    IF t # <<>> /\ t[Len(t)] \in Whitespace THEN rstrip(SubSeq(t, 1, Len(t) - 1)) ELSE t

\* str.strip()
strip(t) == rstrip(lstrip(t))

NoTitle == <<"No", " ", "title">>
NoContent == <<"No", " ", "content">>

\* soup.find_all('article', limit=5)
find_all_unlimited(soup, limit) == soup

find_all(soup, limit) == SubSeq(soup, 1, Min(Len(soup), limit))

\* the dict appended for one article (lines 82-85)
ArticleRecord(article) ==
    [title   |-> IF article.h2 # <<>> THEN strip(Head(article.h2)) ELSE NoTitle,
     content |-> IF article.p # <<>> THEN strip(Head(article.p)) ELSE NoContent]

\* an extractor without the conditionals of lines 83-84: find() returns None
\* for a missing element, .text raises AttributeError, and the worker's except
\* branch stores the empty list
parse_category_unguarded(soup) ==
    LET found == find_all(soup, Limit)
    IN  IF \E i \in 1..Len(found) : found[i].h2 = <<>> \/ found[i].p = <<>>
          THEN <<>>
          ELSE [i \in 1..Len(found) |-> ArticleRecord(found[i])]

parse_category(soup) ==
    LET found == find_all(soup, Limit)
    IN  [i \in 1..Len(found) |-> ArticleRecord(found[i])]

TWords == <<"T1", "T2", "T3", "T4", "T5", "T6", "T7", "T8", "T9", "T10">>
PWords == <<"P1", "P2", "P3", "P4", "P5", "P6", "P7", "P8", "P9", "P10">>

\* The i-th block of a page, in one of NumKinds shapes.
NumKinds == 5
Block(i, kind) ==
    CASE kind = 1 -> [h2 |-> << <<" ", TWords[i], "\n">> >>, p |-> << <<"\n", PWords[i], " ">> >>]
      [] kind = 2 -> [h2 |-> <<>>, p |-> << <<PWords[i]>>, <<"x">> >>]
      [] kind = 3 -> [h2 |-> << <<TWords[i], " ", "x">>, <<"y">> >>, p |-> <<>>]
      [] kind = 4 -> [h2 |-> <<>>, p |-> <<>>]
      [] OTHER    -> [h2 |-> << <<>> >>, p |-> << <<" ", " ">> >>]

\* A page of k blocks whose shapes cycle from shape v.
Page(k, v) == [i \in 1..k |-> Block(i, ((i + v) % NumKinds) + 1)]

Pages == {Page(k, v) : k \in 0..MaxBlocks, v \in 1..NumKinds}

\* What the site serves for a category in the runs of the whole parser.
SitePage(c) ==
    CASE c = "a" -> Page(1, 5)
      [] c = "b" -> Page(Limit + 1, 5)
      [] c = "c" -> Page(2, 1)
      [] OTHER   -> Page(1, 5)

(***************************************************************************)
(* State.                                                                  *)
(***************************************************************************)
NoResp == [kind |-> "none", page |-> <<>>]
Failed == [kind |-> "fail", page |-> <<>>]
Served(page) == [kind |-> "page", page |-> page]

IdleCall ==
    [pc |-> "idle", mode |-> "none", categories |-> <<>>, batch_size |-> 0,
     batches |-> <<>>, batch |-> 0, task |-> <<>>, resp |-> <<>>, pauses |-> 0,
     before |-> <<>>, error |-> NoError]

\* the dict self.data refers to
Store == heap[data]

NoView == [ref |-> None, seen |-> <<>>]

Init ==
    /\ instance = None
    /\ initialized = FALSE
    /\ data = None
    /\ base_url = Unset
    /\ heap = <<>>
    /\ nextId = 1
    /\ returned = <<>>
    /\ view = NoView
    /\ call = [id \in CallIds |-> IdleCall]

(***************************************************************************)
(* WoysaClubParser(): __new__ then __init__.  With `keep` the caller's     *)
(* record of the objects it was given grows (up to MaxKept of them).       *)
(***************************************************************************)
\* line 26: cls._instance is None
NeedsInstance == instance = None

\* line 32: self._initialized
AlreadyInitializedNever(fresh) == FALSE

AlreadyInitialized(fresh) == ~fresh /\ initialized

WoysaClubParser(keep) ==
    LET fresh  == NeedsInstance
        obj    == IF fresh THEN nextId ELSE instance
        after  == IF fresh THEN nextId + 1 ELSE nextId
        skip   == AlreadyInitialized(fresh)
    IN  /\ after <= MaxObjects
        /\ instance' = obj
        /\ initialized' = TRUE
        /\ returned' = IF keep /\ Len(returned) < MaxKept
                          THEN Append(returned, obj) ELSE returned
        /\ IF skip
             THEN /\ UNCHANGED <<data, base_url, heap>>
                  /\ nextId' = after
             ELSE /\ data' = after
                  /\ heap' = (after :> <<>>) @@ heap
                  /\ base_url' = BaseUrl
                  /\ nextId' = after + 1
        /\ UNCHANGED <<view, call>>

\* a to_dict that returns a copy, dict(self.data)
to_dict_copy(keep) ==
    /\ instance # None
    /\ nextId <= MaxObjects
    /\ heap' = (nextId :> Store) @@ heap
    /\ nextId' = nextId + 1
    /\ view' = IF keep THEN [ref |-> nextId, seen |-> Store] ELSE view
    /\ UNCHANGED <<instance, initialized, data, base_url, returned, call>>

\* to_dict(): return self.data; with `keep` the caller holds on to the reference
\* and notes what the mapping held
to_dict(keep) ==
    /\ instance # None
    /\ view' = IF keep THEN [ref |-> data, seen |-> Store] ELSE view
    /\ UNCHANGED <<instance, initialized, data, base_url, heap, nextId, returned, call>>

(***************************************************************************)
(* The batch loop of fetch_data_async / fetch_data_threaded.               *)
(***************************************************************************)
Ready(id) == instance # None /\ initialized /\ call[id].pc = "idle"

\* every worker of the call started at once
DispatchAll(task, batches, b) == [i \in DOMAIN task |-> "get"]

\* tasks = [... for category in batch]; gather(*tasks) / executor.map(..., batch):
\* one worker per entry of batch b starts and sends its request
\* (session.get(url) / requests.get(url))
Dispatch(task, batches, b) ==
    [i \in DOMAIN task |-> IF i \in WorkersOf(batches, b) THEN "get" ELSE task[i]]

\* lines 39-44 and 60-64: split, then dispatch the first batch and wait for it;
\* an error raised in line 39 / 60 (ZeroDivisionError for batch_size = 0) ends
\* the call there.  `before` is the copy of the store the caller took before
\* the call (<<>> when it took none).
Begin(id, mode, categories, batch_size, before) ==
    LET count == BatchCount(categories, batch_size)
    IN  /\ Ready(id)
        /\ IF SplitError(count) # NoError
             THEN call' = [call EXCEPT ![id] =
                      [IdleCall EXCEPT !.pc = "raised", !.mode = mode,
                                       !.categories = categories,
                                       !.batch_size = batch_size,
                                       !.before = before,
                                       !.error = SplitError(count)]]
             ELSE LET batches == array_split(categories, count.n)
                      n == Len(Concat(batches))
                  IN  call' = [call EXCEPT ![id] =
                          [pc |-> "gather", mode |-> mode, categories |-> categories,
                           batch_size |-> batch_size, batches |-> batches, batch |-> 1,
                           task |-> Dispatch([i \in 1..n |-> "none"], batches, 1),
                           resp |-> [i \in 1..n |-> NoResp], pauses |-> 0,
                           before |-> before, error |-> NoError]]
        /\ UNCHANGED <<instance, initialized, data, base_url, heap, nextId, returned, view>>

fetch_data_async(id, categories, batch_size, before) ==
    Begin(id, "async", categories, batch_size, before)

fetch_data_threaded(id, categories, batch_size, before) ==
    Begin(id, "threaded", categories, batch_size, before)

\* await asyncio.gather(*tasks) / list(executor.map(...)) returns: every worker
\* of the batch has finished; the pause begins
AnyDone(c) ==
    \/ WorkersOf(c.batches, c.batch) = {}
    \/ \E i \in WorkersOf(c.batches, c.batch) : c.task[i] = "done"

AllDone(c) == \A i \in WorkersOf(c.batches, c.batch) : c.task[i] = "done"

\* a loop that does not sleep after the last batch
GatheredNoLastPause(id) ==
    /\ call[id].pc = "gather"
    /\ AllDone(call[id])
    /\ call' = [call EXCEPT ![id].pc =
                    IF call[id].batch < Len(call[id].batches) THEN "sleep" ELSE "done"]
    /\ UNCHANGED <<instance, initialized, data, base_url, heap, nextId, returned, view>>

Gathered(id) ==
    /\ call[id].pc = "gather"
    /\ AllDone(call[id])
    /\ call' = [call EXCEPT ![id].pc = "sleep"]
    /\ UNCHANGED <<instance, initialized, data, base_url, heap, nextId, returned, view>>

\* asyncio.sleep(1) / time.sleep(1) ends: next batch, or the call returns
Wake(id) ==
    LET c == call[id]
    IN  /\ c.pc = "sleep"
        /\ IF c.batch < Len(c.batches)
             THEN call' = [call EXCEPT ![id].pauses = c.pauses + 1,
                                       ![id].batch = c.batch + 1,
                                       ![id].task = Dispatch(c.task, c.batches, c.batch + 1)
                                       , ![id].pc = "gather"]
             ELSE call' = [call EXCEPT ![id].pauses = c.pauses + 1, ![id].pc = "done"]
        /\ UNCHANGED <<instance, initialized, data, base_url, heap, nextId, returned, view>>

\* the caller takes the result (or the error) of the call
Return(id) ==
    /\ call[id].pc \in {"done", "raised"}
    /\ call' = [call EXCEPT ![id] = IdleCall]
    /\ UNCHANGED <<instance, initialized, data, base_url, heap, nextId, returned, view>>

(***************************************************************************)
(* The workers: _fetch_category_async / _fetch_category_sync.              *)
(***************************************************************************)
\* a worker that sees the loop variable as it is when the batch has been
\* built: the last category of its batch
WorkerCategoryLateBinding(c, i) ==
    LET batch == c.batches[BatchOf(c.batches, i)]
    IN  batch[Len(batch)]

\* the `category` argument of worker i: the entry of its batch it was made for
WorkerCategory(c, i) == Concat(c.batches)[i]

\* a store that keeps the entry a key already has (dict.setdefault)
SetItemKeepsFirst(h, d, category, value) == [h EXCEPT ![d] = @ @@ (category :> value)]

\* a store that is replaced by the new entry alone
SetItemReplaces(h, d, category, value) == [h EXCEPT ![d] = (category :> value)]

\* self.data[category] = value
SetItem(h, d, category, value) == [h EXCEPT ![d] = (category :> value) @@ @]

\* the value a worker stores for what its request brought
Result(r) == IF r.kind = "fail" THEN <<>> ELSE parse_category(r.page)

\* a worker whose failure escapes it: nothing is stored and the call fails
FinishPropagates(id, i, r) ==
    LET category == WorkerCategory(call[id], i)
    IN  /\ IF r.kind = "fail"
             THEN /\ UNCHANGED heap
                  /\ call' = [call EXCEPT ![id].task[i] = "done", ![id].resp[i] = r,
                                          ![id].pc = "raised"]
             ELSE /\ heap' = SetItem(heap, data, category, Result(r))
                  /\ call' = [call EXCEPT ![id].task[i] = "done", ![id].resp[i] = r]
        /\ UNCHANGED <<instance, initialized, data, base_url, nextId, returned, view>>

\* a worker whose except branch stores nothing
FinishSkipsFailure(id, i, r) ==
    LET category == WorkerCategory(call[id], i)
    IN  /\ heap' = IF r.kind = "fail" THEN heap
                   ELSE SetItem(heap, data, category, Result(r))
        /\ call' = [call EXCEPT ![id].task[i] = "done", ![id].resp[i] = r]
        /\ UNCHANGED <<instance, initialized, data, base_url, nextId, returned, view>>

\* a worker whose except branch keeps the entry the category already has
FinishKeepsEarlier(id, i, r) ==
    LET category == WorkerCategory(call[id], i)
    IN  /\ heap' = IF r.kind = "fail" /\ category \in DOMAIN Store THEN heap
                   ELSE SetItem(heap, data, category, Result(r))
        /\ call' = [call EXCEPT ![id].task[i] = "done", ![id].resp[i] = r]
        /\ UNCHANGED <<instance, initialized, data, base_url, nextId, returned, view>>

\* the worker finishes: lines 53-54 / 73-74, or the except branch 55-57 / 75-77
Finish(id, i, r) ==
    LET category == WorkerCategory(call[id], i)
    IN  /\ heap' = SetItem(heap, data, category, Result(r))
        /\ call' = [call EXCEPT ![id].task[i] = "done", ![id].resp[i] = r]
        /\ UNCHANGED <<instance, initialized, data, base_url, nextId, returned, view>>

\* an async worker whose except branch stores nothing
RequestFailsAsyncSkips(id, i) ==
    /\ i \in DOMAIN call[id].task
    /\ call[id].task[i] = "get"
    /\ IF call[id].mode = "async"
         THEN FinishSkipsFailure(id, i, Failed)
         ELSE Finish(id, i, Failed)

\* the request fails (connection error, timeout) or raise_for_status() raises
RequestFails(id, i) ==
    /\ i \in DOMAIN call[id].task
    /\ call[id].task[i] = "get"
    /\ Finish(id, i, Failed)

\* async: a 2xx response arrives; the worker awaits response.text()
Status2xx(id, i) ==
    /\ call[id].mode = "async"
    /\ i \in DOMAIN call[id].task
    /\ call[id].task[i] = "get"
    /\ call' = [call EXCEPT ![id].task[i] = "text"]
    /\ UNCHANGED <<instance, initialized, data, base_url, heap, nextId, returned, view>>

\* async: reading the body fails
TextFails(id, i) ==
    /\ i \in DOMAIN call[id].task
    /\ call[id].task[i] = "text"
    /\ Finish(id, i, Failed)

\* the page arrives (async: response.text(); threaded: requests.get returns 2xx)
PageArrives(id, i, page) ==
    /\ i \in DOMAIN call[id].task
    /\ \/ call[id].mode = "async" /\ call[id].task[i] = "text"
       \/ call[id].mode = "threaded" /\ call[id].task[i] = "get"
    /\ Finish(id, i, Served(page))

(***************************************************************************)
(* The parser used as main() uses it (lines 95-107): caller 1 issues one   *)
(* fetch call after another, in either mode, and no other caller runs.     *)
(***************************************************************************)
OthersIdle(id) == \A o \in CallIds \ {id} : call[o].pc = "idle"

Workers == 1..(MaxLen + 1)

Sequential(id) == id = 1 /\ OthersIdle(id)

\* the steps of the calls in flight
CallStep(id) ==
    \/ Gathered(id)
    \/ Wake(id)
    \/ \E i \in Workers : RequestFails(id, i)
    \/ \E i \in Workers : Status2xx(id, i)
    \/ \E i \in Workers : TextFails(id, i)
    \/ \E i \in Workers :
           i \in DOMAIN call[id].task
           /\ PageArrives(id, i, SitePage(WorkerCategory(call[id], i)))

\* What a client of the parser may do.  keepObjects, keepView and keepCopy say
\* which records the client keeps: the objects its constructions returned, the
\* reference to_dict returned, a copy of the store taken before each call.
ClientNext(keepObjects, keepView, keepCopy, maxLen) ==
    \/ WoysaClubParser(keepObjects)
    \/ to_dict(keepView)
    \/ \E id \in CallIds, cats \in ListsUpTo(maxLen, Min(maxLen, MaxDistinct)),
          b \in 0..MaxBatchSize :
           /\ Sequential(id)
           /\ fetch_data_async(id, cats, b, IF keepCopy THEN Store ELSE <<>>)
    \/ \E id \in CallIds, cats \in ListsUpTo(maxLen, Min(maxLen, MaxDistinct)),
          b \in 0..MaxBatchSize :
           /\ Sequential(id)
           /\ fetch_data_threaded(id, cats, b, IF keepCopy THEN Store ELSE <<>>)
    \/ \E id \in CallIds : CallStep(id)
    \/ \E id \in CallIds : Return(id)

Next == ClientNext(FALSE, FALSE, FALSE, MaxLen)

Spec == Init /\ [][Next]_vars

(***************************************************************************)
(* The same parser under fair scheduling: every request in flight          *)
(* eventually returns or fails, gather/map returns once its workers have   *)
(* finished, and a sleep ends; on lists of up to MaxObservedLen            *)
(* categories.                                                             *)
(***************************************************************************)
FairNext == ClientNext(FALSE, FALSE, FALSE, MaxObservedLen)

FairSpec == Init /\ [][FairNext]_vars /\ \A id \in CallIds : WF_vars(CallStep(id))

(***************************************************************************)
(* The partition and the batch loop: one call on a list of up to           *)
(* MaxSplitLen categories with a batch size of up to MaxSplitLen + 1, on a *)
(* site whose every request fails.                                         *)
(***************************************************************************)
SplitNext ==
    \/ WoysaClubParser(FALSE)
    \/ \E cats \in ListsUpTo(MaxSplitLen, MaxSplitLen), b \in 0..(MaxSplitLen + 1) :
           fetch_data_async(1, cats, b, <<>>)
    \/ \E cats \in ListsUpTo(MaxSplitLen, MaxSplitLen), b \in 0..(MaxSplitLen + 1) :
           fetch_data_threaded(1, cats, b, <<>>)
    \/ \E i \in 1..(MaxSplitLen + 1) : RequestFails(1, i)
    \/ Gathered(1)
    \/ Wake(1)

SplitSpec == Init /\ [][SplitNext]_vars

(***************************************************************************)
(* The extractor: calls for one category whose page is any page of up to   *)
(* MaxBlocks blocks.                                                       *)
(***************************************************************************)
ParseNext ==
    \/ WoysaClubParser(FALSE)
    \/ fetch_data_async(1, <<"a">>, 1, <<>>)
    \/ fetch_data_threaded(1, <<"a">>, 1, <<>>)
    \/ Gathered(1)
    \/ Wake(1)
    \/ Return(1)
    \/ RequestFails(1, 1)
    \/ Status2xx(1, 1)
    \/ TextFails(1, 1)
    \/ \E page \in Pages : PageArrives(1, 1, page)

ParseSpec == Init /\ [][ParseNext]_vars

(***************************************************************************)
(* The parser with a client that keeps records, on lists of up to          *)
(* MaxObservedLen categories: a copy of the store taken before each call   *)
(* (EquivSpec), the objects its constructions returned (SingletonSpec).    *)
(***************************************************************************)
EquivNext == ClientNext(FALSE, FALSE, TRUE, MaxObservedLen)

EquivSpec == Init /\ [][EquivNext]_vars

SingletonNext == ClientNext(TRUE, FALSE, FALSE, MaxObservedLen)

SingletonSpec == Init /\ [][SingletonNext]_vars

\* the client keeps what to_dict returned, before, during and after calls on
\* lists of up to MaxConcLen categories
ViewNext == ClientNext(FALSE, TRUE, FALSE, MaxConcLen)

ViewSpec == Init /\ [][ViewNext]_vars

(***************************************************************************)
(* Fetch calls that run beside each other on the one instance (tasks of    *)
(* one event loop, or threads): caller 1 issues one call on a list of up   *)
(* to MaxConcLen categories, one other caller issues one call for a single *)
(* category, and the steps of the two calls interleave.                    *)
(***************************************************************************)
\* no caller but caller 1 and id has issued a call
OneBeside(id) == id # 1 /\ \A q \in CallIds \ {1, id} : call[q].pc = "idle"

ConcurrentNext ==
    \/ WoysaClubParser(FALSE)
    \/ \E cats \in ListsUpTo(MaxConcLen, MaxConcLen), b \in 1..MaxBatchSize :
           fetch_data_async(1, cats, b, <<>>)
    \/ \E cats \in ListsUpTo(MaxConcLen, MaxConcLen), b \in 1..MaxBatchSize :
           fetch_data_threaded(1, cats, b, <<>>)
    \/ \E id \in CallIds, d \in 1..MaxConcLen :
           OneBeside(id) /\ fetch_data_async(id, <<Names[d]>>, 1, <<>>)
    \/ \E id \in CallIds, d \in 1..MaxConcLen :
           OneBeside(id) /\ fetch_data_threaded(id, <<Names[d]>>, 1, <<>>)
    \/ \E id \in CallIds : CallStep(id)

ConcurrentSpec == Init /\ [][ConcurrentNext]_vars

(***************************************************************************)
(* Properties.                                                             *)
(***************************************************************************)
Range(seq) == {seq[k] : k \in DOMAIN seq}

Distinct(seq) == \A j, k \in DOMAIN seq : seq[j] = seq[k] => j = k

\* C1: once a fetch call on a non-empty list has returned, every category of
\* the list is a key of the store, mapped to the article list extracted from
\* its page or to the empty list.
C1_EveryCategoryStored ==
    \A id \in CallIds :
        LET c == call[id]
        IN  (c.pc = "done" /\ c.categories # <<>>) =>
                \A k \in DOMAIN c.categories :
                    /\ c.categories[k] \in DOMAIN Store
                    /\ Store[c.categories[k]] \in
                           {<<>>, parse_category(SitePage(c.categories[k]))}

C1_Witness ==
    \E id \in CallIds :
        LET c == call[id]
        IN  /\ c.pc = "done"
            /\ Len(c.categories) >= 3
            /\ Len(c.batches) >= 2
            /\ \E j, k \in DOMAIN c.resp : c.resp[j].kind = "fail" /\ c.resp[k].kind = "page"
            /\ \E k \in DOMAIN c.categories : Store[c.categories[k]] # <<>>

\* The workers of a call whose category is that of worker i all got the same.
SameOutcome(c, i) ==
    \A j \in DOMAIN c.resp :
        WorkerCategory(c, j) = WorkerCategory(c, i) => c.resp[j] = c.resp[i]

\* C2: a failed fetch leaves the empty list at its own category and stops no
\* other worker: when the call has returned, one worker has run to its end for
\* every position of the list, of the same batch and of later batches alike, a
\* category whose fetch failed holds the empty list and a category whose fetch
\* succeeded holds the articles of its page.
C2_FailureIsolation ==
    \A id \in CallIds :
        LET c == call[id]
        IN  c.pc = "done" =>
                /\ Len(c.task) = Len(c.categories)
                /\ \A i \in DOMAIN c.task :
                       /\ c.task[i] = "done"
                       /\ WorkerCategory(c, i) = c.categories[i]
                       /\ c.resp[i].kind \in {"fail", "page"}
                       /\ SameOutcome(c, i) =>
                              /\ c.categories[i] \in DOMAIN Store
                              /\ Store[c.categories[i]] =
                                     IF c.resp[i].kind = "fail" THEN <<>>
                                     ELSE parse_category(SitePage(c.categories[i]))

\* <<a, b, c, a>> in batches of 2: only the fetch of b fails
C2_Witness ==
    \E id \in CallIds :
        LET c == call[id]
        IN  /\ c.pc = "done"
            /\ c.batches = << <<"a", "b">>, <<"c", "a">> >>
            /\ c.resp[2].kind = "fail"
            /\ \A i \in {1, 3, 4} : c.resp[i].kind = "page"
            /\ Store["b"] = <<>>
            /\ Store["a"] = parse_category(SitePage("a"))
            /\ Store["c"] = parse_category(SitePage("c"))

\* C3: a fetch call with batch_size >= 1 never fails as a whole, and under fair
\* scheduling a call in flight eventually returns normally, whatever fetches fail.
C3_CallCompletes ==
    /\ [](\A id \in CallIds : call[id].pc = "raised" => call[id].batch_size = 0)
    /\ \A id \in CallIds :
           (call[id].pc \in {"gather", "sleep"}) ~> (call[id].pc = "done")

C3_Witness ==
    \E id \in CallIds :
        LET c == call[id]
        IN  /\ c.pc = "done"
            /\ c.batch_size >= 1
            /\ Len(c.batches) >= 2
            /\ c.batch = Len(c.batches)
            /\ c.resp # <<>>
            /\ \A i \in DOMAIN c.resp : c.resp[i].kind = "fail"

\* C4: the split of a list of length L >= 1 with batch_size B >= 1 yields
\* max(1, L // B) batches whose concatenation is the list, so that every
\* position of the list lies in exactly one batch; when the call has returned
\* that many batches were dispatched and one worker has run for each position.
C4_BatchPartition ==
    \A id \in CallIds :
        LET c == call[id]
        IN  (c.pc \in {"gather", "sleep", "done"} /\ Len(c.categories) >= 1) =>
                /\ Len(c.batches) = Max(1, Len(c.categories) \div c.batch_size)
                /\ Concat(c.batches) = c.categories
                /\ \A k \in DOMAIN c.categories :
                       Cardinality({b \in DOMAIN c.batches :
                                        k \in WorkersOf(c.batches, b)}) = 1
                /\ c.pc = "done" =>
                       /\ c.batch = Max(1, Len(c.categories) \div c.batch_size)
                       /\ DOMAIN c.task = DOMAIN c.categories
                       /\ \A k \in DOMAIN c.task : c.task[k] = "done"

C4_Witness ==
    \E id \in CallIds :
        LET c == call[id]
        IN  /\ c.pc = "done"
            /\ Len(c.categories) = MaxSplitLen
            /\ Distinct(c.categories)
            /\ Len(c.batches) = 2
            /\ Len(c.batches[1]) # Len(c.batches[2])

\* C5 (as claimed): every batch but the last holds exactly batch_size
\* categories and the last holds at most batch_size.
C5_BatchesOfBatchSize ==
    \A id \in CallIds :
        LET c == call[id]
        IN  c.pc \in {"gather", "sleep", "done"} =>
                \A b \in DOMAIN c.batches :
                    /\ Len(c.batches[b]) <= c.batch_size
                    /\ b < Len(c.batches) => Len(c.batches[b]) = c.batch_size

\* C6: a worker of a later batch has started only if every worker of every
\* earlier batch has finished and stored its entry and the pause after that
\* batch is over.
C6_BatchBarrier ==
    \A id \in CallIds :
        LET c == call[id]
        IN  \A i, j \in DOMAIN c.task :
                (BatchOf(c.batches, i) < BatchOf(c.batches, j) /\ c.task[j] # "none") =>
                    /\ c.task[i] = "done"
                    /\ c.resp[i].kind # "none"
                    /\ WorkerCategory(c, i) \in DOMAIN Store
                    /\ c.pauses >= BatchOf(c.batches, i)

\* in a second batch the later worker has finished before the earlier one
C6_Witness ==
    \E id \in CallIds :
        LET c == call[id]
        IN  /\ c.pc = "gather"
            /\ c.batch = 2
            /\ \E i, j \in WorkersOf(c.batches, 2) :
                   i < j /\ c.task[j] = "done" /\ c.task[i] # "done"
            /\ Cardinality(WorkersOf(c.batches, 1)) >= 2

\* The store a call must leave: the copy taken before it, with the entry of
\* every category of the list set to the result of what its fetch brought.
Expected(before, categories, resp) ==
    [key \in DOMAIN before \cup Range(categories) |->
        IF key \in Range(categories)
          THEN Result(resp[CHOOSE k \in DOMAIN categories : categories[k] = key])
          ELSE before[key]]

\* C7: for a list of distinct categories, the store a call leaves is determined
\* by the store before the call, the list and what each category's fetch
\* brought; it is the same store in async and in threaded mode, under every
\* interleaving of the workers.
C7_ModeEquivalence ==
    \A id \in CallIds :
        LET c == call[id]
            expected == Expected(c.before, c.categories, c.resp)
        IN  (c.pc = "done" /\ Distinct(c.categories)) =>
                /\ c.mode = "async" => Store = expected
                /\ c.mode = "threaded" => Store = expected

C7_Witness ==
    \E id \in CallIds :
        LET c == call[id]
        IN  /\ c.pc = "done"
            /\ c.mode = "threaded"
            /\ c.categories = <<"a", "b", "c">>
            /\ Len(c.batches) = 1
            /\ c.resp[1].kind = "fail" /\ c.resp[2].kind = "page"
            /\ DOMAIN c.before = {"a", "b"}
            /\ c.before["a"] # <<>> /\ c.before["b"] = <<>>

\* C8: no step removes a key from the store, and a step adds or changes only
\* keys that are categories of a fetch call in flight; so the entries of
\* earlier calls survive a later call on other categories unchanged.
C8_StorePersists ==
    [][initialized =>
          /\ DOMAIN Store \subseteq DOMAIN Store'
          /\ \A key \in DOMAIN Store' :
                 (key \notin DOMAIN Store \/ Store'[key] # Store[key]) =>
                     \E id \in CallIds :
                         /\ call[id].pc = "gather"
                         /\ key \in Range(call[id].categories)]_vars

\* a call on <<c>> has returned and the entries of a and b are in the store
C8_Witness ==
    \E id \in CallIds :
        LET c == call[id]
        IN  /\ c.pc = "done"
            /\ c.categories = <<"c">>
            /\ DOMAIN Store = {"a", "b", "c"}
            /\ Store["a"] # <<>>
            /\ Store["b"] = <<>>

\* C9: every construction returns the one instance, and once the instance is
\* initialized no step changes which object it is, which dict its data is or
\* its base_url; a step that is no worker's leaves the contents of the dict
\* as they are.
C9_Singleton ==
    /\ [](\A k \in DOMAIN returned : returned[k] = instance /\ returned[k] = returned[1])
    /\ [][initialized =>
             /\ instance' = instance
             /\ initialized'
             /\ data' = data
             /\ base_url' = base_url
             /\ base_url = BaseUrl
             /\ (call' = call => heap' = heap)]_vars

C9_Witness ==
    /\ Len(returned) >= 2
    /\ initialized
    /\ Store # <<>>
    /\ \E id \in CallIds : call[id].pc = "gather"

\* C10: every article list in the store has at most 5 records, and the list
\* stored for a page of k blocks holds the records of its first min(k, 5)
\* blocks, in document order.
C10_Cap ==
    /\ initialized => \A key \in DOMAIN Store : Len(Store[key]) <= 5
    /\ \A id \in CallIds :
           LET c == call[id]
           IN  \A i \in DOMAIN c.resp :
                   c.resp[i].kind = "page" =>
                       LET page == c.resp[i].page
                           recs == Store[WorkerCategory(c, i)]
                       IN  /\ Len(recs) = Min(Len(page), 5)
                           /\ \A j \in 1..Len(recs) : recs[j] = ArticleRecord(page[j])

C10_Witness ==
    \E id \in CallIds :
        LET c == call[id]
        IN  /\ c.resp # <<>>
            /\ c.resp[1].kind = "page"
            /\ Len(c.resp[1].page) > 5
            /\ Len(Store["a"]) = 5

\* C11: a fetch call on an empty list (with a batch_size of 1 or more; 0 is
\* the case of C19) raises nothing, has one empty batch, starts no worker and
\* sends no request, and from its start to its return the store is the one the
\* caller saw before the call.
C11_EmptyInputNoOp ==
    \A id \in CallIds :
        LET c == call[id]
        IN  (c.pc # "idle" /\ c.categories = <<>> /\ c.batch_size >= 1) =>
                /\ c.pc \in {"gather", "sleep", "done"}
                /\ c.error = NoError
                /\ c.batches = << <<>> >>
                /\ c.task = <<>>
                /\ c.resp = <<>>
                /\ Store = c.before

\* the call on the empty list has returned and the store holds earlier entries
C11_Witness ==
    \E id \in CallIds :
        LET c == call[id]
        IN  /\ c.pc = "done"
            /\ c.categories = <<>>
            /\ c.batch_size >= 1
            /\ DOMAIN c.before = {"a", "b"}
            /\ c.before["b"] # <<>>
            /\ Store = c.before

\* The workers, of all calls, that have finished with category `key`.
Writers(key) ==
    {w \in CallIds \X Workers :
        /\ w[2] \in DOMAIN call[w[1]].task
        /\ call[w[1]].task[w[2]] = "done"
        /\ WorkerCategory(call[w[1]], w[2]) = key}

\* C12: duplicates are allowed, in one call and across calls that run beside
\* each other: a call has one worker per occurrence, each for the category at
\* its position; the step in which a worker finishes sets the entry of its
\* category to that worker's result, whatever the entry was, and changes no
\* other key; so the store has one entry per fetched category and its value is
\* the result of one of the workers that fetched it, the one that wrote last.
C12_LastWriteWins ==
    /\ [](\A id \in CallIds :
             LET c == call[id]
             IN  c.pc \in {"gather", "sleep", "done"} =>
                     /\ Len(c.task) = Len(c.categories)
                     /\ \A i \in DOMAIN c.task : WorkerCategory(c, i) = c.categories[i]
                     /\ c.pc = "done" => \A i \in DOMAIN c.task : c.task[i] = "done")
    /\ [](initialized =>
             /\ DOMAIN Store = {key \in Range(Names) : Writers(key) # {}}
             /\ \A key \in DOMAIN Store :
                    \E w \in Writers(key) : Store[key] = Result(call[w[1]].resp[w[2]]))
    /\ [][\A id \in CallIds : \A i \in DOMAIN call[id].task :
             (call[id].task[i] # "done" /\ call'[id].task[i] = "done") =>
                 LET key == WorkerCategory(call[id], i)
                 IN  /\ key \in DOMAIN Store'
                     /\ Store'[key] = Result(call'[id].resp[i])
                     /\ \A other \in DOMAIN Store' \ {key} :
                            other \in DOMAIN Store /\ Store'[other] = Store[other]]_vars

\* a call on <<a, a>> in one batch whose first worker succeeded and wrote after
\* the second, which failed, beside another call whose fetch of a failed
C12_Witness ==
    \E id, o \in CallIds :
        /\ id # o
        /\ call[id].pc = "done"
        /\ call[id].batches = << <<"a", "a">> >>
        /\ call[id].resp[1].kind = "page"
        /\ call[id].resp[2].kind = "fail"
        /\ call[o].pc = "done"
        /\ call[o].categories = <<"a">>
        /\ call[o].resp[1].kind = "fail"
        /\ Store["a"] = parse_category(SitePage("a"))

\* t is raw without its leading and trailing whitespace
IsTrimOf(t, raw) ==
    /\ t # <<>> => (t[1] \notin Whitespace /\ t[Len(t)] \notin Whitespace)
    /\ \E a, b \in 0..Len(raw) :
           /\ a + b <= Len(raw)
           /\ t = SubSeq(raw, a + 1, Len(raw) - b)
           /\ \A k \in (1..a) \cup ((Len(raw) - b + 1)..Len(raw)) : raw[k] \in Whitespace

\* C13: the list stored for a page has one record per extracted block; its
\* title is the trimmed text of the block's first h2, or "No title" when the
\* block has no h2, its content the trimmed text of the block's first p, or
\* "No content" when the block has no p; a block that lacks an element does
\* not turn the category's result into the empty list of a failure.
C13_Placeholders ==
    \A id \in CallIds :
        LET c == call[id]
        IN  \A i \in DOMAIN c.resp :
                c.resp[i].kind = "page" =>
                    LET page == c.resp[i].page
                        recs == Store[WorkerCategory(c, i)]
                    IN  /\ Len(recs) = Min(Len(page), 5)
                        /\ \A j \in 1..Len(recs) :
                               /\ DOMAIN recs[j] = {"title", "content"}
                               /\ IF page[j].h2 = <<>>
                                    THEN recs[j].title = <<"No", " ", "title">>
                                    ELSE IsTrimOf(recs[j].title, page[j].h2[1])
                               /\ IF page[j].p = <<>>
                                    THEN recs[j].content = <<"No", " ", "content">>
                                    ELSE IsTrimOf(recs[j].content, page[j].p[1])

\* a stored page with a block without h2, a block without p, a block with
\* neither, and a block whose h2 text has whitespace around it
C13_Witness ==
    \E id \in CallIds :
        LET c == call[id]
        IN  /\ c.resp # <<>>
            /\ c.resp[1].kind = "page"
            /\ LET page == c.resp[1].page
                    recs == Store["a"]
                IN  /\ Len(recs) = 5
                    /\ \E j \in 1..5 : page[j].h2 = <<>> /\ page[j].p # <<>>
                                         /\ recs[j].title = NoTitle
                    /\ \E j \in 1..5 : page[j].p = <<>> /\ page[j].h2 # <<>>
                                         /\ recs[j].content = NoContent
                    /\ \E j \in 1..5 : page[j].h2 = <<>> /\ page[j].p = <<>>
                    /\ \E j \in 1..5 : page[j].h2 # <<>>
                                         /\ recs[j].title # page[j].h2[1]

\* C14: L categories with batch_size B >= 1 are split into n = max(1, L // B)
\* batches and no more; the first L mod n of them hold L // n + 1 categories
\* and the others L // n, so two batches differ by at most one in size; for
\* L >= B no batch is smaller than B and, when B does not divide L, the first
\* batch is larger than B; for L < B the one batch is the whole list.
C14_RemainderFolding ==
    \A id \in CallIds :
        LET c == call[id]
            L == Len(c.categories)
            B == c.batch_size
        IN  c.pc \in {"gather", "sleep", "done"} =>
                LET n == IF L \div B >= 1 THEN L \div B ELSE 1
                    size(k) == Len(c.batches[k])
                IN  /\ Len(c.batches) = n
                    /\ \A k \in 1..n :
                           size(k) = IF k <= L % n THEN (L \div n) + 1 ELSE L \div n
                    /\ \A j, k \in 1..n : size(j) - size(k) <= 1
                    /\ L >= B => \A k \in 1..n : size(k) >= B
                    /\ (L >= B /\ L % B # 0) => size(1) > B
                    /\ L < B => c.batches = <<c.categories>>

\* 7 categories with batch_size 2 went out as batches of 3, 2 and 2
C14_Witness ==
    \E id \in CallIds :
        LET c == call[id]
        IN  /\ c.pc = "done"
            /\ Len(c.categories) = 7
            /\ c.batch_size = 2
            /\ Len(c.batches) = 3
            /\ Len(c.batches[1]) = 3
            /\ Len(c.batches[2]) = 2
            /\ Len(c.batches[3]) = 2
            /\ c.batch = 3

\* the workers that finish in this step
Finishing ==
    {w \in CallIds \X Workers :
        /\ w[2] \in DOMAIN call[w[1]].task
        /\ call[w[1]].task[w[2]] # "done"
        /\ w[2] \in DOMAIN call'[w[1]].task
        /\ call'[w[1]].task[w[2]] = "done"}

\* the keys whose entry this step adds or changes
Changed ==
    {key \in DOMAIN Store' : key \notin DOMAIN Store \/ Store'[key] # Store[key]}

\* C15: a worker writes the store once, in the step in which it finishes, at
\* the key of the category at its position and nowhere else, and the entry is
\* its own result; no other step writes, and no key is ever removed.  Hence
\* when the categories of a batch are distinct, whatever the order in which
\* its workers ran, every category of the batch holds the result of its own
\* worker when the batch has completed.
C15_WriteIsolation ==
    /\ [](\A id \in CallIds :
             LET c == call[id]
             IN  (c.pc = "sleep" /\ Distinct(c.batches[c.batch])) =>
                     \A i \in WorkersOf(c.batches, c.batch) :
                         /\ c.categories[i] \in DOMAIN Store
                         /\ Store[c.categories[i]] = Result(c.resp[i]))
    /\ [][initialized =>
             /\ Cardinality(Finishing) <= 1
             /\ DOMAIN Store \subseteq DOMAIN Store'
             /\ Finishing = {} => Changed = {}
             /\ \A w \in Finishing :
                    LET key == call[w[1]].categories[w[2]]
                    IN  /\ Changed \subseteq {key}
                        /\ key \in DOMAIN Store'
                        /\ Store'[key] = Result(call'[w[1]].resp[w[2]])
             /\ \A id \in CallIds : \A i \in DOMAIN call[id].task :
                    (call[id].task[i] = "done" /\ call'[id].pc # "idle") =>
                        call'[id].task[i] = "done"]_vars

\* a batch of three distinct categories has completed with mixed outcomes
C15_Witness ==
    \E id \in CallIds :
        LET c == call[id]
        IN  /\ c.pc = "sleep"
            /\ c.mode = "threaded"
            /\ c.batches[c.batch] = <<"a", "b", "c">>
            /\ c.resp[1].kind = "page"
            /\ c.resp[2].kind = "fail"
            /\ c.resp[3].kind = "page"
            /\ Store["a"] # <<>> /\ Store["b"] = <<>> /\ Store["c"] # <<>>

\* C16: in both modes there is one pause after every batch, the last one
\* included: while batch b runs b - 1 pauses are over, the b-th pause begins
\* when all of its workers have finished and no worker runs during it, a call
\* returns only out of the pause after its last batch, and a call that has
\* returned has paused once for every batch it dispatched.
C16_PausePerBatch ==
    /\ [](\A id \in CallIds :
             LET c == call[id]
             IN  /\ c.pc \in {"gather", "sleep"} => c.pauses = c.batch - 1
                 /\ c.pc = "sleep" =>
                        \A i \in DOMAIN c.task :
                            c.task[i] = IF BatchOf(c.batches, i) <= c.batch
                                          THEN "done" ELSE "none"
                 /\ c.pc = "done" =>
                        /\ c.batch = Len(c.batches)
                        /\ c.pauses = Len(c.batches))
    /\ [][\A id \in CallIds :
             LET c == call[id]
             IN  /\ call'[id].pauses # c.pauses =>
                        \/ call'[id].pc = "idle"
                        \/ /\ c.pc = "sleep"
                           /\ call'[id].pauses = c.pauses + 1
                 /\ (c.pc # "done" /\ call'[id].pc = "done") =>
                        /\ c.pc = "sleep"
                        /\ c.batch = Len(c.batches)
                        /\ call'[id].pauses = c.pauses + 1]_vars

\* a call of three batches has returned after three pauses
C16_Witness ==
    \E id \in CallIds :
        LET c == call[id]
        IN  /\ c.pc = "done"
            /\ c.mode = "async"
            /\ Len(c.batches) = 3
            /\ c.pauses = 3

\* C17: the entry of a category that a call has fetched is the result of one
\* of that call's finished workers for it, never what an earlier call left:
\* when all of the call's fetches of the category failed the entry is the
\* empty list, also where the store held articles for it before the call.
C17_RefetchOverwrites ==
    \A id \in CallIds :
        LET c == call[id]
            done(key) == {j \in DOMAIN c.task :
                             c.task[j] = "done" /\ c.categories[j] = key}
        IN  \A i \in DOMAIN c.task :
                c.task[i] = "done" =>
                    LET key == c.categories[i]
                    IN  /\ key \in DOMAIN Store
                        /\ \E j \in done(key) : Store[key] = Result(c.resp[j])
                        /\ (\A j \in done(key) : c.resp[j].kind = "fail") =>
                               Store[key] = <<>>

\* a held articles before the call on <<a>>, whose fetch failed
C17_Witness ==
    \E id \in CallIds :
        LET c == call[id]
        IN  /\ c.pc = "done"
            /\ c.categories = <<"a">>
            /\ "a" \in DOMAIN c.before
            /\ c.before["a"] = parse_category(SitePage("a"))
            /\ c.before["a"] # <<>>
            /\ c.resp[1].kind = "fail"
            /\ Store["a"] = <<>>

\* C18: the mapping to_dict returns is the store itself: the call changes
\* nothing but what the caller holds, the mapping holds what the store holds at
\* the call, and at every later time, through every write of a fetch call, the
\* mapping the caller holds is the dict self.data refers to and so equals the
\* current store.
C18_ToDictIsStore ==
    /\ [](view.ref # None => (view.ref = data /\ heap[view.ref] = Store))
    /\ [][view' # view =>
             /\ heap' = heap
             /\ <<instance, initialized, data, base_url, call>>
                    = <<instance', initialized', data', base_url', call'>>
             /\ heap'[view'.ref] = Store
             /\ view'.seen = Store]_vars

\* the mapping was empty when to_dict returned it; it now shows the two entries
\* a call in flight has written
C18_Witness ==
    /\ view.ref # None
    /\ view.seen = <<>>
    /\ DOMAIN heap[view.ref] = {"a", "b"}
    /\ heap[view.ref]["b"] # <<>>
    /\ \E id \in CallIds : call[id].pc = "gather" /\ call[id].batch = 2

\* C19: a fetch call with batch_size 0, in either mode and for any list, the
\* empty one included, ends with ZeroDivisionError raised by the batch count:
\* it has no batch, has started no worker, has sent no request and has not
\* slept, and the store is the one the caller saw before the call.
C19_ZeroBatchSizeRaises ==
    \A id \in CallIds :
        LET c == call[id]
        IN  (c.pc # "idle" /\ c.batch_size = 0) =>
                /\ c.pc = "raised"
                /\ c.error = "ZeroDivisionError"
                /\ c.batches = <<>>
                /\ c.batch = 0
                /\ c.task = <<>>
                /\ c.resp = <<>>
                /\ c.pauses = 0
                /\ Store = c.before

\* a threaded call on three categories with batch_size 0 has raised, over a
\* store that holds entries
C19_Witness ==
    \E id \in CallIds :
        LET c == call[id]
        IN  /\ c.pc = "raised"
            /\ c.mode = "threaded"
            /\ c.batch_size = 0
            /\ Len(c.categories) = 3
            /\ c.before # <<>>
            /\ Store = c.before
====
